---------------------------- MODULE Spec2Model ----------------------------
(***************************************************************************)
(* A model of the cannon simulator of src/main.cpp: the aim state           *)
(* (cannonAngle, cannonPower, cannonPosition), the projectile collection,   *)
(* Projectile::update, and the frame loop of main with its key callback.    *)
(*                                                                          *)
(* Numbers.  The program computes in float.  The model is fixed point:      *)
(* lengths and speeds are integers in units of 1/Scale (pixels, pixels per  *)
(* second), times are integers in units of 1/Scale second, and a product    *)
(* is rounded to the nearest unit (Mul).  cannonAngle and cannonPower only  *)
(* ever hold whole numbers (45, 50, +/- 1.0), and are kept in whole units.  *)
(* The clock glfwGetTime belongs to the environment: a frame draws its      *)
(* deltaTime = currentTime - lastFrameTime from a set of values >= 0.       *)
(***************************************************************************)
EXTENDS Integers, Sequences, FiniteSets

VARIABLES
    cannonAngle,     \* float cannonAngle, degrees
    cannonPower,     \* float cannonPower
    cannonPosition,  \* glm::vec2 cannonPosition
    projectiles,     \* std::vector<Projectile> projectiles
    fireCannon,      \* bool fireCannon
    deltaTime,       \* main's local deltaTime of the current frame
    shouldClose,     \* the window's close flag (glfwSetWindowShouldClose)
    pc,              \* position of main in its loop
    frames,          \* number of frames started (history, bounds the runs)
    before           \* history: the state the frame's last step started from

vars == <<cannonAngle, cannonPower, cannonPosition, projectiles, fireCannon,
          deltaTime, shouldClose, pc, frames, before>>

----------------------------------------------------------------------------
(* Bounds of the model                                                      *)

\* frames a run of Spec may start
MaxFrames == 7

\* entries the collection may hold (the fire key is not pressed beyond it)
MaxProjectiles == 2

----------------------------------------------------------------------------
(* Numbers                                                                  *)

\* fixed-point resolution: one unit is 1/Scale
Scale == 100

\* resolution of the cos/sin table
TrigScale == 10000

\* n / d rounded to the nearest integer, halves away from zero
Round(n, d) ==
    IF n >= 0 THEN (2 * n + d) \div (2 * d)
              ELSE -((2 * (-n) + d) \div (2 * d))

\* the float product a * b of two fixed-point numbers
Mul(a, b) == Round(a * b, Scale)

WINDOW_WIDTH == 800

\* GRAVITY = 9.81f
GRAVITY == 981

\* the literals 0.5f, 0.7f and 1.0f of Projectile::update
Dampen == 50
Bounce == 70
SettleSpeed == 100

\* the lifetime 10.0f of the prune pass
MaxTimeAlive == 1000

\* cos(a * PI / 180) for a = 0 .. 90 degrees, in units of 1/TrigScale
CosTable ==
    << 10000, 9998, 9994, 9986, 9976, 9962, 9945, 9925, 9903, 9877,
        9848, 9816, 9781, 9744, 9703, 9659, 9613, 9563, 9511, 9455,
        9397, 9336, 9272, 9205, 9135, 9063, 8988, 8910, 8829, 8746,
        8660, 8572, 8480, 8387, 8290, 8192, 8090, 7986, 7880, 7771,
        7660, 7547, 7431, 7314, 7193, 7071, 6947, 6820, 6691, 6561,
        6428, 6293, 6157, 6018, 5878, 5736, 5592, 5446, 5299, 5150,
        5000, 4848, 4695, 4540, 4384, 4226, 4067, 3907, 3746, 3584,
        3420, 3256, 3090, 2924, 2756, 2588, 2419, 2250, 2079, 1908,
        1736, 1564, 1392, 1219, 1045, 872, 698, 523, 349, 175,
        0 >>

\* k * cos(radianAngle) and k * sin(radianAngle), k in whole units, the
\* result in units of 1/Scale; at this resolution sin(a) = cos(90 - a)
TimesCos(k, angle) == Round(k * Scale * CosTable[angle + 1], TrigScale)
TimesSin(k, angle) == Round(k * Scale * CosTable[90 - angle + 1], TrigScale)

Min(a, b) == IF a <= b THEN a ELSE b
Max(a, b) == IF a >= b THEN a ELSE b

----------------------------------------------------------------------------
(* class Projectile                                                         *)

\* Projectile(pos, vel, r); id stands for the identity of the object
Projectile(pos, vel, r, id) ==
    [position |-> pos, velocity |-> vel, radius |-> r,
     active |-> TRUE, timeAlive |-> 0, id |-> id]

\* update, lines 35-42: gravity, position, time alive
Integrate(p, dt) ==
    LET vy == p.velocity.y - Mul(GRAVITY, dt)
    IN  [p EXCEPT !.velocity = [x |-> p.velocity.x, y |-> vy],
                  !.position = [x |-> p.position.x + Mul(p.velocity.x, dt),
                                y |-> p.position.y + Mul(vy, dt)],
                  !.timeAlive = p.timeAlive + dt]

\* glm::length(velocity) < 1.0f
Slow(v) == v.x * v.x + v.y * v.y < SettleSpeed * SettleSpeed

\* Ground with the bounce applied also to a projectile that settles
GroundAlwaysInverts(p) ==
    IF p.position.y <= p.radius
    THEN LET v == [x |-> Mul(p.velocity.x, Dampen),
                   y |-> Mul(p.velocity.y, Dampen)]
         IN  [p EXCEPT !.position = [x |-> p.position.x, y |-> p.radius],
                       !.velocity = [x |-> v.x, y |-> Mul(-v.y, Bounce)],
                       !.active = ~Slow(v)]
    ELSE p

\* Ground with the clamp of position.y forgotten
GroundNoClamp(p) ==
    IF p.position.y <= p.radius
    THEN LET v == [x |-> Mul(p.velocity.x, Dampen),
                   y |-> Mul(p.velocity.y, Dampen)]
         IN  IF Slow(v)
             THEN [p EXCEPT !.velocity = v, !.active = FALSE]
             ELSE [p EXCEPT !.velocity = [x |-> v.x, y |-> Mul(-v.y, Bounce)]]
    ELSE p

\* update, lines 44-55: the projectile hits the ground
Ground(p) ==
    IF p.position.y <= p.radius
    THEN LET v == [x |-> Mul(p.velocity.x, Dampen),
                   y |-> Mul(p.velocity.y, Dampen)]
             q == [p EXCEPT !.position = [x |-> p.position.x, y |-> p.radius],
                            !.velocity = v]
         IN  IF Slow(v)
             THEN [q EXCEPT !.active = FALSE]
             ELSE [q EXCEPT !.velocity = [x |-> v.x, y |-> Mul(-v.y, Bounce)]]
    ELSE p

\* Wall skipped for a projectile that the ground rule has just settled
WallOnlyWhenActive(p) ==
    IF p.active /\ p.position.x >= WINDOW_WIDTH * Scale - p.radius
    THEN [p EXCEPT !.position = [x |-> WINDOW_WIDTH * Scale - p.radius,
                                 y |-> p.position.y],
                   !.velocity = [x |-> Mul(p.velocity.x, -Bounce),
                                 y |-> p.velocity.y]]
    ELSE p

\* update, lines 57-61: the projectile hits the wall
Wall(p) ==
    IF p.position.x >= WINDOW_WIDTH * Scale - p.radius
    THEN [p EXCEPT !.position = [x |-> WINDOW_WIDTH * Scale - p.radius,
                                 y |-> p.position.y],
                   !.velocity = [x |-> Mul(p.velocity.x, -Bounce),
                                 y |-> p.velocity.y]]
    ELSE p

\* void update(float deltaTime)
Update(p, dt) == Wall(Ground(Integrate(p, dt)))

----------------------------------------------------------------------------
(* processInput and fireProjectile                                          *)

\* the key states glfwGetKey can report for UP, DOWN, RIGHT, LEFT
AllKeys == [up : BOOLEAN, down : BOOLEAN, right : BOOLEAN, left : BOOLEAN]

\* the key states the frames of the loop draw from: no key, or UP held (all
\* sixteen key states are drawn by ProcessInputCall)
FrameKeys == {k \in AllKeys : ~k.down /\ ~k.right /\ ~k.left}

\* AdjustAngle with the upper clamp forgotten
AdjustAngleNoMin(angle, k) ==
    LET a == IF k.up THEN angle + 1 ELSE angle
    IN  IF k.down THEN Max(a - 1, 0) ELSE a

\* processInput: the angle after the UP and DOWN tests
AdjustAngle(angle, k) ==
    LET a == IF k.up THEN Min(angle + 1, 90) ELSE angle
    IN  IF k.down THEN Max(a - 1, 0) ELSE a

\* processInput: the power after the RIGHT and LEFT tests
AdjustPower(power, k) ==
    LET w == IF k.right THEN Min(power + 1, 100) ELSE power
    IN  IF k.left THEN Max(w - 1, 10) ELSE w

\* the smallest identity no entry of the collection carries
FreshId(ps) ==
    CHOOSE i \in 1 .. Len(ps) + 1 :
        /\ \A j \in 1 .. Len(ps) : ps[j].id # i
        /\ \A h \in 1 .. i - 1 : \E j \in 1 .. Len(ps) : ps[j].id = h

\* fireProjectile replacing the collection by the new projectile
FireProjectileReplaces(ps, angle, power, pos) ==
    << Projectile([x |-> pos.x + TimesCos(40, angle),
                   y |-> pos.y + TimesSin(40, angle)],
                  [x |-> TimesCos(power, angle), y |-> TimesSin(power, angle)],
                  5 * Scale, 1) >>

\* fireProjectile: the collection after the push_back
FireProjectile(ps, angle, power, pos) ==
    LET initialVelocity == [x |-> TimesCos(power, angle),
                            y |-> TimesSin(power, angle)]
        barrelEnd == [x |-> pos.x + TimesCos(40, angle),
                      y |-> pos.y + TimesSin(40, angle)]
    IN  Append(ps, Projectile(barrelEnd, initialVelocity, 5 * Scale, FreshId(ps)))

\* main, lines 141-145: update every active projectile
UpdateAll(ps, dt) ==
    [i \in 1 .. Len(ps) |-> IF ps[i].active THEN Update(ps[i], dt) ELSE ps[i]]

\* the predicate with >= for >
ExpiredAtLimit(p) == ~p.active \/ p.timeAlive >= MaxTimeAlive

\* the predicate without the lifetime test
ExpiredInactiveOnly(p) == ~p.active

\* the predicate of remove_if, line 150
Expired(p) == ~p.active \/ p.timeAlive > MaxTimeAlive

\* the prune pass removing only the projectiles that timed out
PruneTimedOutOnly(ps) == SelectSeq(ps, LAMBDA p : p.timeAlive <= MaxTimeAlive)

\* main, lines 148-152: erase(remove_if(...))
Prune(ps) == SelectSeq(ps, LAMBDA p : ~Expired(p))

----------------------------------------------------------------------------
(* The frame loop                                                           *)

\* history of a step of the frame (fire, update, prune): the state the step
\* started from, and the identity of the projectile this frame fired (0 if
\* it fired none)
Snapshot(fresh) ==
    [step |-> pc, projectiles |-> projectiles, fireCannon |-> fireCannon,
     cannonAngle |-> cannonAngle, cannonPower |-> cannonPower,
     cannonPosition |-> cannonPosition, fresh |-> fresh]

\* no step of the frame has been taken since the frame began
NoStep ==
    [step |-> "none", projectiles |-> << >>, fireCannon |-> FALSE,
     cannonAngle |-> 0, cannonPower |-> 0,
     cannonPosition |-> [x |-> 0, y |-> 0], fresh |-> 0]

\* the frame times a run draws from: 0 s, 4 s, 10 s
DeltaTimes == {0, 4 * Scale, 10 * Scale}

\* the frame times of a run whose frames all take time
PositiveDeltaTimes == DeltaTimes \ {0}

Init ==
    /\ cannonAngle = 45
    /\ cannonPower = 50
    /\ cannonPosition = [x |-> 50 * Scale, y |-> 50 * Scale]
    /\ projectiles = << >>
    /\ fireCannon = FALSE
    /\ deltaTime = 0
    /\ shouldClose = FALSE
    /\ pc = "loop"
    /\ frames = 0
    /\ before = NoStep

\* main, lines 125-132: the loop test, the frame's deltaTime, processInput
BeginFrame(times, keys, cap) ==
    /\ pc = "loop"
    /\ ~shouldClose
    /\ cap => frames < MaxFrames
    /\ \E dt \in times, k \in keys :
        /\ deltaTime' = dt
        /\ cannonAngle' = AdjustAngle(cannonAngle, k)
        /\ cannonPower' = AdjustPower(cannonPower, k)
    /\ frames' = IF cap THEN frames + 1 ELSE frames
    /\ pc' = "fire"
    /\ before' = NoStep
    /\ UNCHANGED <<cannonPosition, projectiles, fireCannon, shouldClose>>

\* FireStep with the request left pending
FireStepKeepsRequest ==
    /\ pc = "fire"
    /\ projectiles' = IF fireCannon
                      THEN FireProjectile(projectiles, cannonAngle,
                                          cannonPower, cannonPosition)
                      ELSE projectiles
    /\ pc' = "update"
    /\ before' = Snapshot(IF fireCannon THEN FreshId(projectiles) ELSE 0)
    /\ UNCHANGED <<cannonAngle, cannonPower, cannonPosition, deltaTime,
                   shouldClose, frames, fireCannon>>

\* main, lines 134-138: fire the cannon if requested
FireStep ==
    /\ pc = "fire"
    /\ projectiles' = IF fireCannon
                      THEN FireProjectile(projectiles, cannonAngle,
                                          cannonPower, cannonPosition)
                      ELSE projectiles
    /\ fireCannon' = FALSE
    /\ pc' = "update"
    /\ before' = Snapshot(IF fireCannon THEN FreshId(projectiles) ELSE 0)
    /\ UNCHANGED <<cannonAngle, cannonPower, cannonPosition, deltaTime,
                   shouldClose, frames>>

\* main, lines 140-145
UpdateStep ==
    /\ pc = "update"
    /\ projectiles' = UpdateAll(projectiles, deltaTime)
    /\ pc' = "prune"
    /\ before' = Snapshot(before.fresh)
    /\ UNCHANGED <<cannonAngle, cannonPower, cannonPosition, fireCannon,
                   deltaTime, shouldClose, frames>>

\* main, lines 147-152
PruneStep ==
    /\ pc = "prune"
    /\ projectiles' = Prune(projectiles)
    /\ pc' = "render"
    /\ before' = Snapshot(before.fresh)
    /\ UNCHANGED <<cannonAngle, cannonPower, cannonPosition, fireCannon,
                   deltaTime, shouldClose, frames>>

\* main, lines 154-171: the draw calls read the state, glfwSwapBuffers
Render ==
    /\ pc = "render"
    /\ pc' = "poll"
    /\ before' = NoStep
    /\ UNCHANGED <<cannonAngle, cannonPower, cannonPosition, projectiles,
                   fireCannon, deltaTime, shouldClose, frames>>

\* key_callback for a press of SPACE, delivered by glfwPollEvents
KeySpace ==
    /\ pc = "poll"
    /\ Len(projectiles) < MaxProjectiles
    /\ fireCannon' = TRUE
    /\ before' = NoStep
    /\ UNCHANGED <<cannonAngle, cannonPower, cannonPosition, projectiles,
                   deltaTime, shouldClose, pc, frames>>

\* key_callback for a press of ESCAPE, delivered by glfwPollEvents
KeyEscape ==
    /\ pc = "poll"
    /\ shouldClose' = TRUE
    /\ before' = NoStep
    /\ UNCHANGED <<cannonAngle, cannonPower, cannonPosition, projectiles,
                   fireCannon, deltaTime, pc, frames>>

\* glfwPollEvents returns, line 172
PollReturn ==
    /\ pc = "poll"
    /\ pc' = "loop"
    /\ before' = NoStep
    /\ UNCHANGED <<cannonAngle, cannonPower, cannonPosition, projectiles,
                   fireCannon, deltaTime, shouldClose, frames>>

\* the loop ends, lines 175-177
Exit ==
    /\ pc = "loop"
    /\ shouldClose
    /\ pc' = "done"
    /\ before' = NoStep
    /\ UNCHANGED <<cannonAngle, cannonPower, cannonPosition, projectiles,
                   fireCannon, deltaTime, shouldClose, frames>>

\* the steps of the frame after its beginning
FrameBody ==
    FireStep \/ UpdateStep \/ PruneStep \/ Render \/ PollReturn

Next ==
    \/ BeginFrame(DeltaTimes, FrameKeys, TRUE)
    \/ FrameBody
    \/ KeySpace
    \/ KeyEscape
    \/ Exit

\* The frame loop from the start of main, at most MaxFrames frames.
Spec == Init /\ [][Next]_vars

\* main's steps when every frame takes time and the loop is not bounded
LoopLive ==
    \/ BeginFrame(PositiveDeltaTimes, FrameKeys, FALSE)
    \/ FrameBody
    \/ Exit

NextLive ==
    \/ LoopLive
    \/ KeySpace
    \/ KeyEscape

\* The frame loop with every deltaTime positive.  main is a sequential loop
\* that never blocks: while it has a step to take it takes it.  The key
\* presses are the user's, and nothing forces them.
SpecLive == Init /\ [][NextLive]_vars /\ WF_vars(LoopLive)


----------------------------------------------------------------------------
(* processInput on its own                                                  *)

\* a call of processInput with any state of the four keys
ProcessInputCall ==
    /\ \E k \in AllKeys :
        /\ cannonAngle' = AdjustAngle(cannonAngle, k)
        /\ cannonPower' = AdjustPower(cannonPower, k)
    /\ UNCHANGED <<cannonPosition, projectiles, fireCannon, deltaTime,
                   shouldClose, pc, frames, before>>

\* Any sequence of processInput calls from the start of the program.
SpecAim == Init /\ [][ProcessInputCall]_vars

----------------------------------------------------------------------------
(* Projectile::update on any projectile                                     *)

\* positions, velocities and frame times update is called with: at, inside
\* and beyond the ground and the wall, left of the window and above it
StartX == {-1000, 40000, 79400, 79500, 79600}
StartY == {300, 500, 520, 5000, 70000}
StartVX == {-3000, 0, 30, 150, 3000}
StartVY == {-3000, -50, -40, 0, 140, 3000}
UpdateTimes == {0, 15, 100, 1000}

\* main is about to update a collection that holds one projectile with any
\* of these positions and velocities
InitUpdate ==
    /\ cannonAngle = 45
    /\ cannonPower = 50
    /\ cannonPosition = [x |-> 50 * Scale, y |-> 50 * Scale]
    /\ \E x \in StartX, y \in StartY, vx \in StartVX, vy \in StartVY :
          projectiles = << Projectile([x |-> x, y |-> y],
                                      [x |-> vx, y |-> vy], 5 * Scale, 1) >>
    /\ fireCannon = FALSE
    /\ deltaTime \in UpdateTimes
    /\ shouldClose = FALSE
    /\ pc = "update"
    /\ frames = MaxFrames - 1
    /\ before = NoStep

\* update applied to any projectile, and the loop running on from there
SpecUpdate == InitUpdate /\ [][Next]_vars

----------------------------------------------------------------------------
(* Properties                                                               *)

\* the wall: WINDOW_WIDTH - radius
WallX(p) == WINDOW_WIDTH * Scale - p.radius

\* the indices of a collection
Idx(ps) == 1 .. Len(ps)

\* the last step of main was the fire step, the update loop, the prune pass
AfterFire == before.step = "fire"
AfterUpdate == before.step = "update"
AfterPrune == before.step = "prune"

\* projectile i before the update loop, after its integration (lines 35-42),
\* its velocity after the halving of the ground rule, and after the update
Was(i) == before.projectiles[i]
Moved(i) == Integrate(Was(i), deltaTime)
Halved(i) == [x |-> Mul(Moved(i).velocity.x, Dampen),
              y |-> Mul(Moved(i).velocity.y, Dampen)]
Now(i) == projectiles[i]

\* the ground rule, the wall rule fires in the update of projectile i
Contact(i) == Moved(i).position.y <= Was(i).radius
AtWall(i) == Moved(i).position.x >= WallX(Was(i))

\* C1: the angle stays within 0 .. 90 and the power within 10 .. 100 after
\* any sequence of processInput calls, whatever keys each call sees
AimRange ==
    /\ 0 <= cannonAngle /\ cannonAngle <= 90
    /\ 10 <= cannonPower /\ cannonPower <= 100

\* C1: both clamps have acted: the angle stands at its upper limit and the
\* power at its lower limit
AimAtLimits == cannonAngle = 90 /\ cannonPower = 10

\* the projectile is on or above the ground and on or left of the wall
InBounds(p) == p.position.y >= p.radius /\ p.position.x <= WallX(p)

\* the state that holds the projectile update is about to be called with
UpdateInput == pc = "update" /\ before.step = "none"

\* C2: after a call of update, whatever the position and the velocity were,
\* position.y >= radius and position.x <= WINDOW_WIDTH - radius; a freshly
\* fired projectile satisfies both as well, so every entry of the collection
\* does in every state of the loop
PositionClamp ==
    UpdateInput \/ \A i \in Idx(projectiles) : InBounds(projectiles[i])

\* C2: an update has brought a projectile from below the ground and beyond
\* the wall back onto both
ClampedOnBothAxes ==
    /\ AfterUpdate
    /\ \E i \in Idx(projectiles) :
        /\ Was(i).position.y < Was(i).radius
        /\ Was(i).position.x > WallX(Was(i))
        /\ Now(i).position.y = Now(i).radius
        /\ Now(i).position.x = WallX(Now(i))

\* the entries of a collection
Entries(ps) == {ps[i] : i \in Idx(ps)}

\* C3: after the prune pass the collection holds exactly the entries that
\* were active with timeAlive <= 10.0 before it (10.0 itself survives), each
\* with all its fields as they were, and so no entry that is inactive or
\* older than 10.0
PruneExact ==
    AfterPrune =>
        /\ Entries(projectiles) =
              {p \in Entries(before.projectiles) :
                  p.active /\ p.timeAlive <= 10 * Scale}
        /\ Len(projectiles) = Cardinality(Entries(projectiles))
        /\ \A i \in Idx(projectiles) :
              projectiles[i].active /\ projectiles[i].timeAlive <= 10 * Scale

\* C3: a prune pass has kept an entry whose timeAlive is exactly 10.0 and
\* removed an active entry that was older
PrunedAtTheLimit ==
    /\ AfterPrune
    /\ \E i \in Idx(projectiles) : projectiles[i].timeAlive = 10 * Scale
    /\ \E j \in Idx(before.projectiles) :
        /\ Was(j).active
        /\ Was(j).timeAlive > 10 * Scale
        /\ Was(j) \notin Entries(projectiles)

\* C4: an update with deltaTime = 0 leaves every projectile of the
\* collection as it was
ZeroStepNoOp ==
    AfterUpdate /\ deltaTime = 0 => projectiles = before.projectiles

\* C5: a projectile is created active with timeAlive = 0; update is only
\* ever called on active projectiles, and it clears active only in a step
\* with ground contact and a halved speed below 1.0; an inactive entry
\* exists only between the update loop and the prune pass of one frame, and
\* that prune pass removes it; the prune pass removes nothing but inactive
\* and timed out entries
Lifecycle ==
    /\ AfterFire /\ before.fireCannon =>
          /\ projectiles[Len(projectiles)].active
          /\ projectiles[Len(projectiles)].timeAlive = 0
    /\ AfterUpdate =>
          \A i \in Idx(projectiles) :
              /\ Was(i).active
              /\ ~Now(i).active => Contact(i) /\ Slow(Halved(i))
    /\ (\E i \in Idx(projectiles) : ~projectiles[i].active) => pc = "prune"
    /\ AfterPrune =>
          \A j \in Idx(before.projectiles) :
              /\ ~Was(j).active => \A i \in Idx(projectiles) : Now(i).id # Was(j).id
              /\ Was(j) \notin Entries(projectiles) =>
                    ~Was(j).active \/ Was(j).timeAlive > 10 * Scale

\* C5: a projectile has settled in the update loop and the prune pass of the
\* same frame has removed it
SettledAndRemoved ==
    /\ AfterPrune
    /\ \E j \in Idx(before.projectiles) :
        /\ ~Was(j).active
        /\ Was(j).timeAlive <= 10 * Scale
        /\ \A i \in Idx(projectiles) : Now(i).id # Was(j).id

\* the aim is as it was before the last step
AimUnchanged ==
    /\ cannonAngle = before.cannonAngle
    /\ cannonPower = before.cannonPower
    /\ cannonPosition = before.cannonPosition

InCollection(id) == \E i \in Idx(projectiles) : projectiles[i].id = id

\* timeAlive of every entry grows by exactly deltaTime in the update loop, and
\* no entry that is inactive or older than 10.0 survives a prune pass
AgesAndExpires ==
    /\ AfterUpdate =>
          \A i \in Idx(projectiles) :
              /\ Now(i).timeAlive = Was(i).timeAlive + deltaTime
              /\ Now(i).timeAlive > Was(i).timeAlive
    /\ pc # "prune" =>
          \A i \in Idx(projectiles) :
              projectiles[i].active /\ projectiles[i].timeAlive <= 10 * Scale

\* no step of the program lowers the timeAlive of a projectile it keeps
NeverYounger ==
    \A i \in Idx(projectiles), j \in Idx(projectiles') :
        projectiles[i].id = projectiles'[j].id =>
            projectiles'[j].timeAlive >= projectiles[i].timeAlive

\* C7: when every frame takes time, timeAlive never decreases and grows by
\* deltaTime in every frame, the first prune pass that sees an entry
\* inactive or older than 10.0 removes it, and every projectile in the
\* collection is eventually removed from it for as long as the loop runs
\* (until the window closes)
TimeoutReclaims ==
    /\ []AgesAndExpires
    /\ [][NeverYounger]_vars
    /\ \A id \in 1 .. MaxProjectiles :
          InCollection(id) ~> (~InCollection(id) \/ pc = "done")

\* C7: the prune pass has removed a projectile that was still active when
\* its timeAlive passed 10.0
RemovedByTimeout ==
    /\ AfterPrune
    /\ \E j \in Idx(before.projectiles) :
        /\ Was(j).active
        /\ Was(j).timeAlive > 10 * Scale
        /\ ~InCollection(Was(j).id)

\* the ground rule of update: with contact, position.y = radius and the
\* velocity is halved; then a halved speed below 1.0 clears active and leaves
\* velocity.y halved, any other halved speed keeps active and makes
\* velocity.y -0.7 times the halved value; without contact active and
\* velocity.y are those of the integration
GroundRule(i) ==
    /\ Contact(i) =>
          /\ Now(i).position.y = Was(i).radius
          /\ Slow(Halved(i)) =>
                ~Now(i).active /\ Now(i).velocity.y = Halved(i).y
          /\ ~Slow(Halved(i)) =>
                Now(i).active /\ Now(i).velocity.y = Mul(-Halved(i).y, Bounce)
          /\ ~AtWall(i) => Now(i).velocity.x = Halved(i).x
    /\ ~Contact(i) =>
          /\ Now(i).active = Was(i).active
          /\ Now(i).velocity.y = Moved(i).velocity.y
          /\ ~AtWall(i) => Now(i).velocity.x = Moved(i).velocity.x

\* projectile i lay on the ground, position.y = radius, moving downward with
\* speed 0.5
SlowOnGround(i) ==
    /\ Was(i).position.y = Was(i).radius
    /\ Was(i).velocity.y < 0
    /\ Was(i).velocity.x * Was(i).velocity.x
          + Was(i).velocity.y * Was(i).velocity.y = Dampen * Dampen

\* C8, as claimed: the ground rule, and in particular a projectile at
\* position.y = radius with speed 0.5 and downward velocity is inactive
\* after one step
GroundRuleAnyStep ==
    AfterUpdate =>
        \A i \in Idx(projectiles) :
            /\ GroundRule(i)
            /\ SlowOnGround(i) => ~Now(i).active

\* C8, amended: the ground rule, and in particular a projectile at
\* position.y = radius with speed 0.5 and downward velocity is inactive
\* after one step of at most 0.15 s
GroundRuleShortStep ==
    AfterUpdate =>
        \A i \in Idx(projectiles) :
            /\ GroundRule(i)
            /\ SlowOnGround(i) /\ 100 * deltaTime <= 15 * Scale
                  => ~Now(i).active

\* C8: a projectile at position.y = radius with speed 0.5 and downward
\* velocity has settled in a step that took time
SettledFromGround ==
    /\ AfterUpdate
    /\ deltaTime > 0
    /\ \E i \in Idx(projectiles) : SlowOnGround(i) /\ ~Now(i).active

\* velocity.x of projectile i as the ground rule leaves it
AfterGroundVX(i) ==
    IF Contact(i) THEN Halved(i).x ELSE Moved(i).velocity.x

\* C9: at or beyond the wall after the integration, position.x becomes
\* WINDOW_WIDTH - radius and velocity.x -0.7 times what the ground rule left,
\* whether or not the ground rule fired or settled the projectile; short of
\* the wall position.x and velocity.x are left alone, however far left the
\* projectile is; and above the ground position.y is left alone, however
\* high it is
WallRule ==
    AfterUpdate =>
        \A i \in Idx(projectiles) :
            /\ AtWall(i) =>
                  /\ Now(i).position.x = WallX(Was(i))
                  /\ Now(i).velocity.x = Mul(AfterGroundVX(i), -Bounce)
            /\ ~AtWall(i) =>
                  /\ Now(i).position.x = Moved(i).position.x
                  /\ Now(i).velocity.x = AfterGroundVX(i)
            /\ ~Contact(i) => Now(i).position.y = Moved(i).position.y

\* C9: one update has settled a projectile on the ground and bounced it off
\* the wall, clamping both axes
SettledAtTheWall ==
    /\ AfterUpdate
    /\ \E i \in Idx(projectiles) :
        /\ ~Now(i).active
        /\ Moved(i).position.x > WallX(Was(i))
        /\ Now(i).position.x = WallX(Was(i))
        /\ Now(i).position.y = Was(i).radius
        /\ Now(i).velocity.x = Mul(Halved(i).x, -Bounce)
        /\ Now(i).velocity.x # 0

\* C10: the fire step of a frame inserts one projectile when a request is
\* pending and none when not, and clears the request; no later step of the
\* frame inserts, so no request is pending while the frame updates, prunes
\* and renders; and the projectile fired in a frame is updated in that
\* frame: at render time its timeAlive is the frame's deltaTime
FireRequest ==
    /\ AfterFire =>
          /\ Len(projectiles) =
                Len(before.projectiles) + (IF before.fireCannon THEN 1 ELSE 0)
          /\ before.fireCannon <=> before.fresh # 0
          /\ before.fireCannon => projectiles[Len(projectiles)].id = before.fresh
    /\ AfterUpdate \/ AfterPrune => Len(projectiles) <= Len(before.projectiles)
    /\ pc \in {"update", "prune", "render"} => ~fireCannon
    /\ pc \in {"prune", "render"} =>
          \A i \in Idx(projectiles) :
              projectiles[i].id = before.fresh =>
                  projectiles[i].timeAlive = deltaTime

\* C10: a frame that took time renders the projectile it has fired next to
\* an older one
FreshAtRender ==
    /\ pc = "render"
    /\ deltaTime > 0
    /\ Len(projectiles) = 2
    /\ \E i \in Idx(projectiles) :
        projectiles[i].id = before.fresh /\ projectiles[i].timeAlive = deltaTime

=============================================================================
